---- MODULE Spec2Model ----
(***************************************************************************)
(* Model of src/src/services/comparer.ts: chooseFoldersAndCompare and      *)
(* compareFolders, run as concurrent async invocations on one JavaScript   *)
(* event loop.  Code between two awaits is one atomic action.              *)
(*                                                                         *)
(* Strings are sequences of one-character strings, so that path.join is a  *)
(* real concatenation.  An optional value is <<>> (undefined) or <<v>>.    *)
(***************************************************************************)
EXTENDS Integers, Sequences, FiniteSets, TLC

\* ------------------------------------------------------------------ bounds
\* Number of changes the environment (user settings, the two trees, the
\* failing collaborator) makes while the invocations run.
MaxEnvChanges == 1

\* The invocations on the event loop, each of chooseFoldersAndCompare or of
\* compareFolders: two, so that one can run while the other is suspended.
Procs == {1, 2}

\* ------------------------------------------------------------------ values
Undefined == <<"undefined">>
EmptyStr == <<>>
LeftRoot == <<"/", "l">>
RightRoot == <<"/", "r">>
Roots == {LeftRoot, RightRoot}
NameA == <<"a">>
NameB == <<"b">>
NameOrder == <<NameA, NameB>>
Names == {NameOrder[i] : i \in 1..Len(NameOrder)}

None == <<>>
Some(v) == <<v>>

\* JavaScript truthiness of a string-or-undefined value (comparer.ts:15,18).
Truthy(s) == s # Undefined /\ s # EmptyStr

VARIABLES
  pathContext,  \* the shared path context (../context/path): <<main, compared>>
  settings,     \* the user's settings; a key the user has not set is None
  tree,         \* the two directory trees, per name
  failing,      \* the collaborator that throws in the present environment
  changes,      \* number of environment changes so far
  pc,           \* per invocation: where it is suspended
  chooser,      \* per invocation: locals of chooseFoldersAndCompare
  frame,        \* per invocation: locals of compareFolders
  engine,       \* per invocation: the call made to dir-compare and its answer
  seen,         \* per invocation: the environment the run read
  events,       \* per invocation: the observable calls it made, in order
  ret           \* per invocation: what it returned

vars == <<pathContext, settings, tree, failing, changes, pc, chooser, frame,
          engine, seen, events, ret>>

\* ------------------------------------------------------------ configuration
\* contributes.configuration defaults (package.json).
DefaultCompareContent == TRUE
DefaultShowIdentical == FALSE
DefaultIgnoreExtension == <<>>

Defaults ==
  [compareContent |-> DefaultCompareContent,
   showIdentical |-> DefaultShowIdentical,
   ignoreExtension |-> DefaultIgnoreExtension]

\* The ignoreExtension lists the user may configure: none, one pair, and two
\* pairs that share the extension "ts".
ExtensionLists ==
  { <<>>,
    << <<"js", "ts">> >>,
    << <<"js", "ts">>, <<"ts", "tsx">> >> }

\* The values the user sets a key to: other than its default.
SettingValues ==
  [compareContent |-> BOOLEAN \ {DefaultCompareContent},
   showIdentical |-> BOOLEAN \ {DefaultShowIdentical},
   ignoreExtension |-> ExtensionLists \ {DefaultIgnoreExtension}]

SettingKeys == DOMAIN SettingValues

\* getConfiguration(key): the user's value, else the declared default.
GetConfiguration(cfg, key) ==
  IF cfg[key] = None THEN Defaults[key] ELSE cfg[key][1]

\* validate() of ./ignoreExtensionTools: every extension appears in at most
\* one declared pair.
Validate(cfg) ==
  LET pairs == GetConfiguration(cfg, "ignoreExtension")
      exts(i) == {pairs[i][1], pairs[i][2]}
  IN \A i, j \in 1..Len(pairs) : i # j => exts(i) \cap exts(j) = {}

\* getOptions with compareContent hard-wired instead of read.
GetOptions_ContentAlways(cfg) ==
  [compareContent |-> Some(TRUE),
   ignoreExtension |-> Some(GetConfiguration(cfg, "ignoreExtension")),
   compareNameHandler |-> Some("compareName")]

\* getOptions reading compareContent under a key that does not exist.
GetOptions_ContentDropped(cfg) ==
  [compareContent |-> None,
   ignoreExtension |-> Some(GetConfiguration(cfg, "ignoreExtension")),
   compareNameHandler |-> Some("compareName")]

\* getOptions(), comparer.ts:68-105.  compareNameHandler is set whenever
\* ignoreExtension is truthy; an array, even empty, is truthy.
GetOptions(cfg) ==
  [compareContent |-> Some(GetConfiguration(cfg, "compareContent")),
   ignoreExtension |-> Some(GetConfiguration(cfg, "ignoreExtension")),
   compareNameHandler |-> Some("compareName")]

\* { compareContent: true, ...options }, comparer.ts:117: every own key of
\* options, its undefined values included, overrides the literal.
ConcatenatedOptions(options) ==
  LET literal == [compareContent |-> Some(TRUE)]
  IN [k \in DOMAIN literal \cup DOMAIN options |->
        IF k \in DOMAIN options THEN options[k] ELSE literal[k]]

\* ------------------------------------------------------------------ trees
\* What a folder holds under one name: nothing, a file or a directory.  v is
\* what the engine compares of the entry: of a file its contents as read
\* under the active policy, of a directory what makes the engine report a
\* pair of directories distinct (a symbolic link, a directory it may not
\* read).
Missing == [kind |-> "missing", v |-> "-"]
Entries == {Missing} \cup [kind : {"file", "directory"}, v : {"x", "y"}]

Difference(p1, n1, t1, p2, n2, t2, state) ==
  [path1 |-> p1, name1 |-> n1, type1 |-> t1,
   path2 |-> p2, name2 |-> n2, type2 |-> t2, state |-> state]

LeftOnly(p1, n, e1) ==
  Difference(p1, n, e1.kind, Undefined, Undefined, "missing", "left")

RightOnly(p2, n, e2) ==
  Difference(Undefined, Undefined, "missing", p2, n, e2.kind, "right")

\* The state of a matched pair: two files are equal when content comparison
\* is off or their contents are equivalent, distinct otherwise.
PairState(e1, e2, options) ==
  IF e1.kind = "file" /\ options.compareContent # Some(TRUE)
    THEN "equal"
    ELSE IF e1.v = e2.v THEN "equal" ELSE "distinct"

EntriesFor(n, e1, e2, p1, p2, options) ==
  CASE e1 = Missing /\ e2 = Missing -> <<>>
    [] e1 # Missing /\ e2 = Missing -> <<LeftOnly(p1, n, e1)>>
    [] e1 = Missing /\ e2 # Missing -> <<RightOnly(p2, n, e2)>>
    [] e1 # Missing /\ e1.kind = e2.kind ->
         <<Difference(p1, n, e1.kind, p2, n, e2.kind, PairState(e1, e2, options))>>
    [] OTHER -> <<LeftOnly(p1, n, e1), RightOnly(p2, n, e2)>>

RECURSIVE Walk(_, _, _, _, _)
Walk(i, fs, p1, p2, options) ==
  IF i > Len(NameOrder) THEN <<>>
  ELSE EntriesFor(NameOrder[i], fs[p1][NameOrder[i]], fs[p2][NameOrder[i]],
                  p1, p2, options)
         \o Walk(i + 1, fs, p1, p2, options)

\* compare(path1, path2, options) of dir-compare: the diffSet of the result.
Compare(fs, p1, p2, options) == Walk(1, fs, p1, p2, options)

\* ------------------------------------------------------------- partitions
\* path.join(dir, name) on two strings.
PathJoin(dir, name) ==
  IF dir = EmptyStr THEN name
  ELSE IF name = EmptyStr THEN dir
  ELSE dir \o <<"/">> \o name

MapSeq(f(_), seq) == [i \in 1..Len(seq) |-> f(seq[i])]

IsDistinct(diff) == diff.state = "distinct"
\* The left filter without its test of the state.
IsLeft_AnyState(diff) == diff.type1 = "file"
IsLeft(diff) == diff.state = "left" /\ diff.type1 = "file"
IsRight(diff) == diff.state = "right" /\ diff.type2 = "file"
IsIdentical(diff) == diff.state = "equal" /\ diff.type1 = "file"

PairItem(diff) ==
  <<PathJoin(diff.path1, diff.name1), PathJoin(diff.path2, diff.name2)>>
LeftItem(diff) == <<PathJoin(diff.path1, diff.name1)>>
RightItem(diff) == <<PathJoin(diff.path2, diff.name2)>>

\* The distinct pairs pushed onto an array that outlives the run.
Distinct_Accumulated(diffSet) ==
  ret[1].value.distinct \o ret[2].value.distinct
    \o MapSeq(PairItem, SelectSeq(diffSet, IsDistinct))

\* comparer.ts:125-127
Distinct(diffSet) == MapSeq(PairItem, SelectSeq(diffSet, IsDistinct))
\* comparer.ts:130-132
Left(diffSet) == MapSeq(LeftItem, SelectSeq(diffSet, IsLeft))
\* comparer.ts:134-136
Right(diffSet) == MapSeq(RightItem, SelectSeq(diffSet, IsRight))
\* The identical files collected whatever showIdentical says.
Identicals_Always(diffSet, showIdentical) ==
  MapSeq(LeftItem, SelectSeq(diffSet, IsIdentical))

\* comparer.ts:138-142
Identicals(diffSet, showIdentical) ==
  IF showIdentical THEN MapSeq(LeftItem, SelectSeq(diffSet, IsIdentical))
  ELSE <<>>

\* path.join throws a TypeError on an argument that is not a string.
JoinThrows(diffSet, showIdentical) ==
  \E i \in 1..Len(diffSet) :
    LET d == diffSet[i]
        first == d.path1 = Undefined \/ d.name1 = Undefined
        second == d.path2 = Undefined \/ d.name2 = Undefined
    IN \/ IsDistinct(d) /\ (first \/ second)
       \/ IsLeft(d) /\ first
       \/ IsRight(d) /\ second
       \/ showIdentical /\ IsIdentical(d) /\ first

\* class CompareResult, comparer.ts:152-163
CompareResult(distinct, left, right, identicals, leftPath, rightPath) ==
  [distinct |-> distinct, left |-> left, right |-> right,
   identicals |-> identicals, leftPath |-> leftPath, rightPath |-> rightPath]

\* emptyResponse, comparer.ts:108
EmptyResponse == CompareResult(<<>>, <<>>, <<>>, <<>>, EmptyStr, EmptyStr)

\* ------------------------------------------------------------------- state
\* The collaborator that throws in the present environment, if any: the
\* condition (an unreadable tree, a broken settings store) lasts until the
\* environment changes it.
Collaborators == {"none", "validate", "getPaths", "getConfiguration", "compare"}

\* What openFolder() resolves to: a chosen folder, or undefined on cancel.
OpenFolderResults == {RightRoot, Undefined}
\* The optional argument of chooseFoldersAndCompare.
PathArguments == {Undefined, EmptyStr, LeftRoot}

NoChooser ==
  [path |-> Undefined, folder1Path |-> Undefined, folder2Path |-> Undefined]
NoFrame ==
  [folder1Path |-> Undefined, folder2Path |-> Undefined,
   showIdentical |-> FALSE]
NoCall ==
  [called |-> FALSE, path1 |-> Undefined, path2 |-> Undefined,
   options |-> ConcatenatedOptions([compareContent |-> None]),
   diffSet |-> <<>>, contextAtEnd |-> <<>>]
Pending == [returned |-> "pending", value |-> EmptyResponse]
ReturnedUndefined == [returned |-> "undefined", value |-> EmptyResponse]
Returned(result) == [returned |-> "result", value |-> result]

\* The settings at the start: none set, or content comparison turned off and
\* identical files shown.
InitSettings ==
  { [compareContent |-> None, showIdentical |-> None, ignoreExtension |-> None],
    [compareContent |-> Some(FALSE), showIdentical |-> Some(TRUE),
     ignoreExtension |-> None] }

File(v) == [kind |-> "file", v |-> v]
Directory(v) == [kind |-> "directory", v |-> v]

\* The trees at the start: two folders of files, or two folders of
\* directories.
InitTrees ==
  { (LeftRoot :> (NameA :> File("x") @@ NameB :> File("x")))
      @@ (RightRoot :> (NameA :> File("y") @@ NameB :> File("x"))),
    (LeftRoot :> (NameA :> Directory("x") @@ NameB :> Directory("x")))
      @@ (RightRoot :> (NameA :> Directory("y") @@ NameB :> Missing)) }

Init ==
  /\ pathContext = <<LeftRoot, RightRoot>>
  /\ settings \in InitSettings
  /\ tree \in InitTrees
  /\ failing = "none"
  /\ changes = 0
  /\ pc = [p \in Procs |-> "idle"]
  /\ chooser = [p \in Procs |-> NoChooser]
  /\ frame = [p \in Procs |-> NoFrame]
  /\ engine = [p \in Procs |-> NoCall]
  /\ seen = [p \in Procs |-> <<>>]
  /\ events = [p \in Procs |-> <<>>]
  /\ ret = [p \in Procs |-> Pending]

\* Invocations are interchangeable: they start in the order of their numbers.
MayStart(p) == pc[p] = "idle" /\ \A q \in Procs : q < p => pc[q] # "idle"

\* ---------------------------------------------------------- compareFolders
\* A catch block that logs and shows nothing to the user.
CatchBlock_LogOnly(evs) == evs \o <<"log">>

\* comparer.ts:145-149: what the catch block does after the calls so far.
CatchBlock(evs) == evs \o <<"log", "showErrorMessage">>

\* The result of validate() ignored.
ValidationPassed_Ignored(cfg) == TRUE

\* comparer.ts:110: the run goes on only when validate() holds.
ValidationPassed(cfg) == Validate(cfg)

\* The paths read again from the path context when the result is built.
RecordedPaths_Reread(p) == pathContext

\* comparer.ts:144: the root paths the result records.
RecordedPaths(p) == <<frame[p].folder1Path, frame[p].folder2Path>>

Finish(p, evs, value) ==
  /\ pc' = [pc EXCEPT ![p] = "done"]
  /\ events' = [events EXCEPT ![p] = evs]
  /\ ret' = [ret EXCEPT ![p] = value]

\* comparer.ts:107-119: compareFolders from its call to its first await, with
\* ctx the path context at the call and evs the calls made before it.
CompareFoldersBegin(p, ctx, evs) ==
  /\ seen' = [seen EXCEPT ![p] = Append(@, <<settings, ctx, failing>>)]
  /\ IF failing = "validate"
       THEN /\ Finish(p, CatchBlock(evs \o <<"validate", "throw">>),
                      Returned(EmptyResponse))
            /\ UNCHANGED <<frame, engine>>
     ELSE IF ~ValidationPassed(settings)
       THEN /\ Finish(p, evs \o <<"validate", "configurationError">>,
                      Returned(EmptyResponse))
            /\ UNCHANGED <<frame, engine>>
     ELSE IF failing = "getPaths"
       THEN /\ Finish(p, CatchBlock(evs \o <<"validate", "getPaths", "throw">>),
                      Returned(EmptyResponse))
            /\ UNCHANGED <<frame, engine>>
     ELSE IF failing = "getConfiguration"
       THEN /\ Finish(p, CatchBlock(evs \o <<"validate", "getPaths",
                                             "getConfiguration", "throw">>),
                      Returned(EmptyResponse))
            /\ UNCHANGED <<frame, engine>>
     ELSE /\ frame' = [frame EXCEPT ![p] =
                 [folder1Path |-> ctx[1], folder2Path |-> ctx[2],
                  showIdentical |-> GetConfiguration(settings, "showIdentical")]]
          /\ engine' = [engine EXCEPT ![p] =
                 [called |-> TRUE, path1 |-> ctx[1], path2 |-> ctx[2],
                  options |-> ConcatenatedOptions(GetOptions(settings)),
                  diffSet |-> <<>>, contextAtEnd |-> <<>>]]
          /\ pc' = [pc EXCEPT ![p] = "awaiting"]
          /\ events' = [events EXCEPT ![p] =
                 evs \o <<"validate", "getPaths", "getConfiguration", "compare">>]
          /\ UNCHANGED ret

\* A command calls compareFolders() on the present path context.
CallCompareFolders(p) ==
  /\ MayStart(p)
  /\ CompareFoldersBegin(p, pathContext, events[p])
  /\ UNCHANGED <<pathContext, settings, tree, failing, changes, chooser>>

\* comparer.ts:119-144: compare() resolves; the partitions are built and the
\* result returned.
CompareResolved(p) ==
  /\ pc[p] = "awaiting"
  /\ failing # "compare"
  /\ LET diffSet == Compare(tree, engine[p].path1, engine[p].path2,
                            engine[p].options)
         showIdentical == frame[p].showIdentical
         paths == RecordedPaths(p)
     IN /\ engine' = [engine EXCEPT ![p].diffSet = diffSet,
                                     ![p].contextAtEnd = pathContext]
        /\ seen' = [seen EXCEPT ![p] = Append(@, <<tree, failing>>)]
        /\ IF JoinThrows(diffSet, showIdentical)
             THEN Finish(p, CatchBlock(events[p] \o <<"throw">>),
                         Returned(EmptyResponse))
             ELSE Finish(p, events[p],
                         Returned(CompareResult(
                           Distinct(diffSet), Left(diffSet), Right(diffSet),
                           Identicals(diffSet, showIdentical),
                           paths[1], paths[2])))
  /\ UNCHANGED <<pathContext, settings, tree, failing, changes, chooser, frame>>

\* comparer.ts:119, 145-149: compare() rejects; the catch block runs.
CompareRejected(p) ==
  /\ pc[p] = "awaiting"
  /\ failing = "compare"
  /\ seen' = [seen EXCEPT ![p] = Append(@, <<tree, failing>>)]
  /\ engine' = [engine EXCEPT ![p].contextAtEnd = pathContext]
  /\ Finish(p, CatchBlock(events[p] \o <<"throw">>), Returned(EmptyResponse))
  /\ UNCHANGED <<pathContext, settings, tree, failing, changes, chooser, frame>>

\* -------------------------------------------------- chooseFoldersAndCompare
\* The test of the first folder forgotten.
BothChosen_SecondOnly(folder1Path, folder2Path) == Truthy(folder2Path)

\* comparer.ts:18: both folders were chosen.
BothChosen(folder1Path, folder2Path) ==
  Truthy(folder1Path) /\ Truthy(folder2Path)

\* comparer.ts:14-16: the call, up to its first await.  A truthy path is
\* taken as the first folder and only the second is asked for.
ChooseFoldersAndCompare(p, path) ==
  /\ MayStart(p)
  /\ IF Truthy(path)
       THEN /\ chooser' = [chooser EXCEPT ![p] =
                   [path |-> path, folder1Path |-> path, folder2Path |-> Undefined]]
            /\ pc' = [pc EXCEPT ![p] = "openFolder2"]
       ELSE /\ chooser' = [chooser EXCEPT ![p].path = path]
            /\ pc' = [pc EXCEPT ![p] = "openFolder1"]
  /\ events' = [events EXCEPT ![p] = Append(@, "openFolder")]
  /\ UNCHANGED <<pathContext, settings, tree, failing, changes, frame, engine,
                 seen, ret>>

\* comparer.ts:15-16: the first openFolder() resolves, the second is called.
FirstFolderChosen(p, folder) ==
  /\ pc[p] = "openFolder1"
  /\ chooser' = [chooser EXCEPT ![p].folder1Path = folder]
  /\ pc' = [pc EXCEPT ![p] = "openFolder2"]
  /\ events' = [events EXCEPT ![p] = Append(@, "openFolder")]
  /\ UNCHANGED <<pathContext, settings, tree, failing, changes, frame, engine,
                 seen, ret>>

\* comparer.ts:16-23: the second openFolder() resolves; without both folders
\* the function returns undefined, else it sets the paths and runs
\* compareFolders up to its first await.
SecondFolderChosen(p, folder) ==
  /\ pc[p] = "openFolder2"
  /\ chooser' = [chooser EXCEPT ![p].folder2Path = folder]
  /\ IF BothChosen(chooser[p].folder1Path, folder)
       THEN /\ pathContext' = <<chooser[p].folder1Path, folder>>
            /\ CompareFoldersBegin(p, pathContext',
                                   Append(events[p], "setPaths"))
       ELSE /\ Finish(p, events[p], ReturnedUndefined)
            /\ UNCHANGED <<pathContext, frame, engine, seen>>
  /\ UNCHANGED <<settings, tree, failing, changes>>

\* -------------------------------------------------------------- environment
\* The environment changes a bounded number of times, while an invocation
\* that may still read it has not returned.
MayChange ==
  /\ changes < MaxEnvChanges
  /\ \E p \in Procs : pc[p] # "done"

\* The user changes one setting, or removes it.
ChangeSetting(key, value) ==
  /\ MayChange
  /\ value # settings[key]
  /\ settings' = [settings EXCEPT ![key] = value]
  /\ changes' = changes + 1
  /\ UNCHANGED <<pathContext, tree, failing, pc, chooser, frame, engine, seen,
                 events, ret>>

\* One folder changes under one name: an entry is created, removed, or
\* changed in what the engine compares of it.
ChangeTree(root, name, entry) ==
  /\ MayChange
  /\ entry # tree[root][name]
  /\ \/ entry = Missing
     \/ tree[root][name] = Missing
     \/ entry.kind = tree[root][name].kind
  /\ tree' = [tree EXCEPT ![root][name] = entry]
  /\ changes' = changes + 1
  /\ UNCHANGED <<pathContext, settings, failing, pc, chooser, frame, engine,
                 seen, events, ret>>

\* A collaborator starts or stops throwing.
ChangeFailing(collaborator) ==
  /\ MayChange
  /\ collaborator # failing
  /\ failing' = collaborator
  /\ changes' = changes + 1
  /\ UNCHANGED <<pathContext, settings, tree, pc, chooser, frame, engine, seen,
                 events, ret>>

Next ==
  \/ \E p \in Procs : CallCompareFolders(p)
  \/ \E p \in Procs : CompareResolved(p)
  \/ \E p \in Procs : CompareRejected(p)
  \/ \E p \in Procs, path \in PathArguments : ChooseFoldersAndCompare(p, path)
  \/ \E p \in Procs, folder \in OpenFolderResults : FirstFolderChosen(p, folder)
  \/ \E p \in Procs, folder \in OpenFolderResults : SecondFolderChosen(p, folder)
  \/ \E key \in SettingKeys :
       \E value \in {None} \cup {Some(v) : v \in SettingValues[key]} :
         ChangeSetting(key, value)
  \/ \E root \in Roots, name \in Names, entry \in Entries :
       ChangeTree(root, name, entry)
  \/ \E collaborator \in Collaborators : ChangeFailing(collaborator)

Spec == Init /\ [][Next]_vars

\* ------------------------------------------------------------------ claims
Range(seq) == {seq[i] : i \in 1..Len(seq)}
Count(seq, x) == Cardinality({i \in 1..Len(seq) : seq[i] = x})
Position(seq, x) == CHOOSE i \in 1..Len(seq) : seq[i] = x

Done(p) == pc[p] = "done"
\* The invocation entered compareFolders.
Entered(p) == Len(seen[p]) >= 1
\* The invocation returned the partitions it built from the engine's answer.
Built(p) == Done(p) /\ engine[p].called /\ "throw" \notin Range(events[p])
\* The settings the run read.
SettingsRead(p) == seen[p][1][1]
\* The trees as they were when compare() settled.
TreesRead(p) == seen[p][2][1]

PartitionNames == {"distinct", "left", "right", "identicals"}

\* The partitions of result r in which entry d of the diff set appears.
PartitionsOf(d, r) ==
  {x \in {"distinct"} : d.name1 # Undefined /\ d.name2 # Undefined
      /\ <<PathJoin(d.path1, d.name1), PathJoin(d.path2, d.name2)>> \in Range(r.distinct)}
  \cup {x \in {"left"} : d.name1 # Undefined /\ d.name2 = Undefined
      /\ <<PathJoin(d.path1, d.name1)>> \in Range(r.left)}
  \cup {x \in {"right"} : d.name2 # Undefined /\ d.name1 = Undefined
      /\ <<PathJoin(d.path2, d.name2)>> \in Range(r.right)}
  \cup {x \in {"identicals"} : d.name1 # Undefined /\ d.name2 # Undefined
      /\ <<PathJoin(d.path1, d.name1)>> \in Range(r.identicals)}

NoDuplicates(seq) == \A i, j \in 1..Len(seq) : seq[i] = seq[j] => i = j

\* Every side of the entry that is present is a file.
IsFileEntry(d) ==
  /\ d.type1 \in {"file", "missing"}
  /\ d.type2 \in {"file", "missing"}

C2_ErrorsCaught ==
  \A p \in Procs : Done(p) /\ "throw" \in Range(events[p]) =>
    /\ Len(events[p]) >= 3
    /\ SubSeq(events[p], Len(events[p]) - 2, Len(events[p]))
         = <<"throw", "log", "showErrorMessage">>
    /\ ret[p] = Returned(EmptyResponse)

\* A run whose compare() rejected on a folder that holds entries.
C2_Witness ==
  \E p \in Procs :
    /\ Done(p)
    /\ engine[p].called
    /\ "throw" \in Range(events[p])
    /\ \E n \in Names : tree[engine[p].path1][n] # Missing

\* C3: validate is called before compare in every run; a run whose
\* validation fails never calls compare, returns the empty result and has
\* a configuration error signalled.
C3_ValidateFirst ==
  \A p \in Procs :
    /\ "compare" \in Range(events[p]) =>
         /\ "validate" \in Range(events[p])
         /\ Position(events[p], "validate") < Position(events[p], "compare")
    /\ engine[p].called <=> "compare" \in Range(events[p])
    /\ (Entered(p) /\ seen[p][1][3] # "validate" /\ ~Validate(SettingsRead(p))) =>
         /\ ~engine[p].called
         /\ Done(p)
         /\ ret[p] = Returned(EmptyResponse)
         /\ "configurationError" \in Range(events[p])

\* A run that read an ignoreExtension list with an extension in two pairs.
C3_Witness ==
  \E p \in Procs :
    /\ Entered(p)
    /\ seen[p][1][3] = "none"
    /\ ~Validate(SettingsRead(p))
    /\ Done(p)

\* The item of a matched pair under name n in the distinct partition, and
\* the items of its two sides.
PairOf(p, n) ==
  <<PathJoin(engine[p].path1, n), PathJoin(engine[p].path2, n)>>
FirstOf(p, n) == <<PathJoin(engine[p].path1, n)>>
SecondOf(p, n) == <<PathJoin(engine[p].path2, n)>>

\* Under name n both folders the run compared held a file.
MatchedFiles(p, n) ==
  /\ TreesRead(p)[engine[p].path1][n].kind = "file"
  /\ TreesRead(p)[engine[p].path2][n].kind = "file"

\* The two files under name n have equivalent contents.
Equivalent(p, n) ==
  TreesRead(p)[engine[p].path1][n].v = TreesRead(p)[engine[p].path2][n].v

\* The user turned content comparison off.
ContentDisabled(p) == SettingsRead(p).compareContent = Some(FALSE)

\* C4: with showIdentical on, a matched pair of files is in identicals when
\* content comparison is off or the contents are equivalent, in distinct
\* otherwise, in one of the two only, and never in left or right.
C4_MatchedPairs ==
  \A p \in Procs : Built(p) /\ frame[p].showIdentical =>
    \A n \in Names : MatchedFiles(p, n) =>
      LET r == ret[p].value
      IN /\ IF ContentDisabled(p) \/ Equivalent(p, n)
              THEN /\ FirstOf(p, n) \in Range(r.identicals)
                   /\ PairOf(p, n) \notin Range(r.distinct)
              ELSE /\ PairOf(p, n) \in Range(r.distinct)
                   /\ FirstOf(p, n) \notin Range(r.identicals)
         /\ FirstOf(p, n) \notin Range(r.left)
         /\ SecondOf(p, n) \notin Range(r.right)

\* Content comparison off, two files whose contents differ, found identical;
\* and in another run, content comparison on, found distinct.
C4_Witness ==
  /\ \E p \in Procs, n \in Names :
       /\ Built(p) /\ frame[p].showIdentical /\ MatchedFiles(p, n)
       /\ ContentDisabled(p) /\ ~Equivalent(p, n)
       /\ FirstOf(p, n) \in Range(ret[p].value.identicals)
  /\ \E p \in Procs, n \in Names :
       /\ Built(p) /\ frame[p].showIdentical /\ MatchedFiles(p, n)
       /\ ~ContentDisabled(p) /\ ~Equivalent(p, n)
       /\ PairOf(p, n) \in Range(ret[p].value.distinct)

\* C5: identicals is non-empty only in a run that read showIdentical as
\* true; two runs given the same diff set return the same distinct, left and
\* right whatever showIdentical was in each.
C5_ShowIdentical ==
  /\ \A p \in Procs : ret[p].value.identicals # <<>> =>
       /\ Entered(p)
       /\ GetConfiguration(SettingsRead(p), "showIdentical")
  /\ \A p, q \in Procs :
       Built(p) /\ Built(q) /\ engine[p].diffSet = engine[q].diffSet =>
         /\ ret[p].value.distinct = ret[q].value.distinct
         /\ ret[p].value.left = ret[q].value.left
         /\ ret[p].value.right = ret[q].value.right

\* Two runs on the same diff set with an equal file in it, one with
\* showIdentical on and one with it off.
C5_Witness ==
  \E p, q \in Procs :
    /\ Built(p) /\ Built(q)
    /\ engine[p].diffSet = engine[q].diffSet
    /\ frame[p].showIdentical /\ ~frame[q].showIdentical
    /\ ret[p].value.identicals # <<>>
    /\ ret[q].value.identicals = <<>>
    /\ ret[p].value.distinct # <<>>

\* C6: the options compare() is called with carry a defined compareContent,
\* which is true when the user has not set the option.
C6_CompareContentDefined ==
  \A p \in Procs : engine[p].called =>
    /\ engine[p].options.compareContent \in {Some(TRUE), Some(FALSE)}
    /\ SettingsRead(p).compareContent = None
         => engine[p].options.compareContent = Some(TRUE)

\* compare() called while the user has not set compareContent.
C6_Witness ==
  \E p \in Procs :
    /\ engine[p].called
    /\ SettingsRead(p).compareContent = None
    /\ engine[p].options.compareContent = Some(TRUE)

IsDirectoryEntry(d) == d.type1 = "directory" \/ d.type2 = "directory"

\* C8: no directory entry of the diff set appears in any partition of a
\* built result, and every left-only or right-only file entry appears in
\* left or right respectively.
C8_OnlyFiles ==
  \A p \in Procs : Built(p) =>
    \A i \in 1..Len(engine[p].diffSet) :
      LET d == engine[p].diffSet[i]
          r == ret[p].value
      IN /\ IsDirectoryEntry(d) => PartitionsOf(d, r) = {}
         /\ d.state = "left" /\ d.type1 = "file" => PartitionsOf(d, r) = {"left"}
         /\ d.state = "right" /\ d.type2 = "file" => PartitionsOf(d, r) = {"right"}

\* C9: a built result records the two root paths compare() was called with,
\* whatever the path context has become; any other result of compareFolders
\* records two empty strings.
C9_RecordedPaths ==
  \A p \in Procs : Done(p) /\ Entered(p) =>
    IF Built(p)
      THEN /\ ret[p].value.leftPath = engine[p].path1
           /\ ret[p].value.rightPath = engine[p].path2
      ELSE /\ ret[p].value.leftPath = EmptyStr
           /\ ret[p].value.rightPath = EmptyStr

\* A built result of a run during whose await another invocation set other
\* paths.
C9_Witness ==
  \E p \in Procs :
    /\ Built(p)
    /\ engine[p].contextAtEnd # <<engine[p].path1, engine[p].path2>>
    /\ ret[p].value.leftPath = engine[p].path1
    /\ ret[p].value.leftPath # engine[p].contextAtEnd[1]

\* The invocation is one of chooseFoldersAndCompare.
Chose(p) == "openFolder" \in Range(events[p])

\* C10: chooseFoldersAndCompare sets the paths and enters compareFolders
\* only with two non-empty folder paths; otherwise it returns undefined and
\* does neither.  The path context is the initial one or one set from two
\* non-empty paths.  With a non-empty path argument it asks for one folder.
C10_ChooseFolders ==
  /\ \A p \in Procs : Chose(p) /\ Done(p) =>
       IF Truthy(chooser[p].folder1Path) /\ Truthy(chooser[p].folder2Path)
         THEN /\ "setPaths" \in Range(events[p])
              /\ Entered(p)
              /\ seen[p][1][2] = <<chooser[p].folder1Path, chooser[p].folder2Path>>
              /\ ret[p].returned = "result"
         ELSE /\ "setPaths" \notin Range(events[p])
              /\ ~Entered(p)
              /\ ret[p] = ReturnedUndefined
  /\ \A p \in Procs : pc[p] \in {"openFolder1", "openFolder2"} =>
       "setPaths" \notin Range(events[p]) /\ ~Entered(p)
  /\ \A p \in Procs : "setPaths" \in Range(events[p]) =>
       /\ Truthy(chooser[p].folder1Path) /\ Truthy(chooser[p].folder2Path)
       /\ Entered(p)
  /\ \/ pathContext = <<LeftRoot, RightRoot>>
     \/ \E p \in Procs :
          /\ "setPaths" \in Range(events[p])
          /\ pathContext = <<chooser[p].folder1Path, chooser[p].folder2Path>>
          /\ Truthy(pathContext[1]) /\ Truthy(pathContext[2])
  /\ \A p \in Procs : Truthy(chooser[p].path) =>
       /\ Count(events[p], "openFolder") = 1
       /\ chooser[p].folder1Path = chooser[p].path

\* A call with a path argument whose folder selection was cancelled.
C10_Witness ==
  \E p \in Procs :
    /\ Done(p)
    /\ Truthy(chooser[p].path)
    /\ chooser[p].folder2Path = Undefined
    /\ ret[p] = ReturnedUndefined
    /\ \E q \in Procs : Chose(q) /\ Built(q) /\ ~Truthy(chooser[q].path)

====
